---- MODULE Spec2Model ----
(***************************************************************************)
(* Model of src/cpp_has_something.cpp: the DEFINE_has_member /            *)
(* temp_has_member compile-time member probe, and the demonstration       *)
(* program that prints the probe's result for three element types.        *)
(*                                                                         *)
(* The compile-time part is a state machine over one translation unit:    *)
(* every use of DEFINE_has_member declares a class template in the        *)
(* enclosing scope, every use of temp_has_member names that template and  *)
(* instantiates it for a class.  The instantiation is computed the way    *)
(* the compiler computes it: member name lookup of U::member_name,        *)
(* access checking, formation of &U::member_name, template argument       *)
(* substitution into both test candidates, overload resolution of         *)
(* test<T>(0), and the sizeof comparison.                                 *)
(***************************************************************************)
EXTENDS Integers, Sequences, FiniteSets

VARIABLES
    declared,   \* class templates declared so far in the scope, in order
    build,      \* "ok", or the diagnostic that failed the build
    query,      \* <<>>, or <<r>>: the instantiation the current expression names
    pc,         \* the demonstration program's position in main
    objects,    \* test<> objects alive in main, in construction order
    out,        \* lines written to cout, each a sequence of tokens
    exit_code   \* <<>> while main runs, <<code>> once it has returned

vars == <<declared, build, query, pc, objects, out, exit_code>>

(***************************************************************************)
(* Bounds of the enumerated inputs.                                        *)
(***************************************************************************)
MaxOverloads == 2
MaxBases == 2

(***************************************************************************)
(* Member names the translation unit may register and query.  "heading"   *)
(* is a proper prefix of "headings" (struct C of the source).             *)
(***************************************************************************)
Names == {"heading", "headings"}

Access == {"public", "protected", "private"}

\* Types a non-static data member is declared with.
MemberTypes == {"double", "bool", "double&"}

Decl(n, k, a, t, o) ==
    [name |-> n, kind |-> k, access |-> a, mtype |-> t, overloads |-> o]

\* double heading;  as written in the source's structs
Field(n, t) == Decl(n, "data", "public", t, 0)

Class(n, ms, bs) == [tag |-> "class", name |-> n, members |-> ms, bases |-> bs]

NonClass(tag, n) == [tag |-> tag, name |-> n, members |-> {}, bases |-> {}]

CubeSphereObject ==
    Class("CubeSphereObject",
          { Field(n, "double") :
              n \in {"x", "y", "z", "width", "length", "height", "heading"} },
          {})

B == Class("B", { Field("heading", "bool") }, {})

C == Class("C", { Field("headings", "bool") }, {})

DemoTypes == {CubeSphereObject, B, C}

std_vector(T) == [template |-> "std::vector", value_type |-> T]

(***************************************************************************)
(* The classes a query is made on: a class T with at most one member of   *)
(* its own named by Names, of any kind and access, deriving from up to    *)
(* MaxBases of the source's structs; the source's structs themselves; and *)
(* a few types that are not classes.                                      *)
(***************************************************************************)
DataDecls(n) == { Decl(n, "data", a, t, 0) : a \in Access, t \in MemberTypes }

StaticDataDecls(n) == { Decl(n, "static_data", a, "double", 0) : a \in Access }

FunctionDecls(n) ==
    { Decl(n, k, a, "function", o) :
        k \in {"function", "static_function"}, a \in Access, o \in 1..MaxOverloads }

NestedTypeDecls(n) == { Decl(n, "nested_type", a, "type", 0) : a \in Access }

Decls ==
    UNION { DataDecls(n) \cup StaticDataDecls(n) \cup FunctionDecls(n)
            \cup NestedTypeDecls(n) : n \in Names }

MemberSets == {{}} \cup { {d} : d \in Decls }

BaseSpecifiers == [access : Access, cls : DemoTypes]

\* A class names each direct base at most once.
BaseSets ==
    { bs \in SUBSET BaseSpecifiers :
        /\ Cardinality(bs) <= MaxBases
        /\ \A x, y \in bs : x.cls = y.cls => x = y }

ClassTypes == { Class("T", ms, bs) : ms \in MemberSets, bs \in BaseSets }

NonClassTypes ==
    { NonClass("fundamental", "int"), NonClass("fundamental", "void"),
      NonClass("pointer", "B*"), NonClass("reference", "B&") }

Types == ClassTypes \cup DemoTypes \cup NonClassTypes

(***************************************************************************)
(* typedef char yes_type; typedef long no_type; and their sizes.          *)
(***************************************************************************)
yes_type == "char"

\* typedef char no_type; both result types of one size
no_type_as_char == "char"

no_type == "long"

sizeof_char == 1

sizeof_long == 8

sizeof(t) == IF t = "char" THEN sizeof_char ELSE sizeof_long

(***************************************************************************)
(* Member name lookup of U::member_name: a declaration in the class hides *)
(* those of its bases; otherwise the bases' lookup sets are merged, and a *)
(* name found in more than one base subobject is ambiguous.  The access   *)
(* is the access of the name when named through U.                        *)
(***************************************************************************)
NoDecl == Decl("", "none", "none", "none", 0)

NotFound == [status |-> "not_found", decl |-> NoDecl, access |-> "none"]

Ambiguous == [status |-> "ambiguous", decl |-> NoDecl, access |-> "none"]

\* Access of a base's member as a member of the derived class.
inherited_access(inheritance, member) ==
    IF member \in {"private", "inaccessible"} THEN "inaccessible"
    ELSE IF inheritance = "public" THEN member
    ELSE inheritance

RECURSIVE member_lookup(_, _)
member_lookup(U, member_name) ==
    LET own == { d \in U.members : d.name = member_name }
        sub == { [base |-> b, found |-> member_lookup(b.cls, member_name)] :
                   b \in U.bases }
        hits == { s \in sub : s.found.status # "not_found" }
    IN  IF own # {}
        THEN LET d == CHOOSE d \in own : TRUE
             IN  [status |-> "found", decl |-> d, access |-> d.access]
        ELSE IF hits = {} THEN NotFound
        ELSE IF Cardinality(hits) > 1 \/ \E s \in hits : s.found.status = "ambiguous"
        THEN Ambiguous
        ELSE LET s == CHOOSE s \in hits : TRUE
             IN  [status |-> "found", decl |-> s.found.decl,
                  access |-> inherited_access(s.base.access, s.found.access)]

\* Access is not checked during substitution.
accessible_unchecked(found) == found.status = "found"

\* The probe is neither a member nor a friend of U, nor derived from it.
accessible(found) == found.access = "public"

(***************************************************************************)
(* decltype(&U::member_name): the type of the address of the member, or   *)
(* "substitution_failure" when the expression cannot be formed.           *)
(***************************************************************************)
\* An overload set is taken to have an address.
addressable_overload_set(d) ==
    /\ d.kind # "nested_type"
    /\ ~(d.kind = "data" /\ d.mtype = "double&")

\* Whether & can be applied to the member d names: not to a type, not to an
\* overload set without a target type, not to a member of reference type.
addressable(d) ==
    /\ d.kind # "nested_type"
    /\ ~(d.kind \in {"function", "static_function"} /\ d.overloads > 1)
    /\ ~(d.kind = "data" /\ d.mtype = "double&")

address_of_member(U, member_name) ==
    LET found == member_lookup(U, member_name)
    IN  IF U.tag # "class" THEN "substitution_failure"
        ELSE IF found.status # "found" THEN "substitution_failure"
        ELSE IF ~accessible(found) THEN "substitution_failure"
        ELSE IF ~addressable(found.decl) THEN "substitution_failure"
        ELSE IF found.decl.kind \in {"data", "function"} THEN "pointer_to_member"
        ELSE "pointer"

(***************************************************************************)
(* The two function templates named test, after substituting U = T, and   *)
(* the implicit conversion sequence of the argument 0 to each parameter.  *)
(***************************************************************************)
implicit_conversion(parameter) ==
    IF parameter \in {"pointer", "pointer_to_member"} THEN "standard_conversion"
    ELSE IF parameter = "..." THEN "ellipsis_conversion"
    ELSE "none"

test_decltype(T, member_name) ==
    [name |-> "test(decltype(&U::member_name))",
     parameter |-> address_of_member(T, member_name),
     result |-> yes_type]

test_ellipsis(T) ==
    [name |-> "test(...)", parameter |-> "...", result |-> no_type]

test(T, member_name) == { test_decltype(T, member_name), test_ellipsis(T) }

viable(f) == implicit_conversion(f.parameter) # "none"

\* The catch-all is preferred.
better_ellipsis_first(f, g) ==
    /\ implicit_conversion(f.parameter) = "ellipsis_conversion"
    /\ implicit_conversion(g.parameter) = "standard_conversion"

\* A standard conversion sequence is better than an ellipsis conversion sequence.
better(f, g) ==
    /\ implicit_conversion(f.parameter) = "standard_conversion"
    /\ implicit_conversion(g.parameter) = "ellipsis_conversion"

overload_resolution(candidates) ==
    LET ok == { f \in candidates : viable(f) }
    IN  CHOOSE f \in ok : \A g \in ok \ {f} : better(f, g)

\* static constexpr bool value = sizeof(test<T>(0)) == sizeof(yes_type);
value(T, member_name) ==
    sizeof(overload_resolution(test(T, member_name)).result) = sizeof(yes_type)

\* temp_has_member_##member_name
paste(member_name) == <<"temp_has_member_", member_name>>

\* temp_has_member_##member_name<class_>: what the instantiation computes.
instantiate(class_, member_name) ==
    [class_ |-> class_,
     member_name |-> member_name,
     viable |-> { f.name : f \in { g \in test(class_, member_name) : viable(g) } },
     selected |-> overload_resolution(test(class_, member_name)).name,
     value |-> value(class_, member_name)]

\* temp_has_member(class_, member_name)
temp_has_member(class_, member_name) == instantiate(class_, member_name).value

(***************************************************************************)
(* The translation unit.  A declaration of a class template whose name is *)
(* already declared in the scope is a redefinition; naming a template     *)
(* that is not declared is an error.  A failed build yields nothing.      *)
(***************************************************************************)
\* A second declaration of the same name is accepted.
declare_silently(scope, identifier) ==
    [scope |-> Append(scope, identifier), diagnostic |-> "ok"]

declare(scope, identifier) ==
    IF \E i \in DOMAIN scope : scope[i] = identifier
    THEN [scope |-> scope, diagnostic |-> "redefinition"]
    ELSE [scope |-> Append(scope, identifier), diagnostic |-> "ok"]

\* Any declared probe answers for any name.
name_lookup_any_probe(scope, identifier) == scope # <<>>

name_lookup(scope, identifier) == \E i \in DOMAIN scope : scope[i] = identifier

Init ==
    /\ declared = <<>>
    /\ build = "ok"
    /\ query = <<>>
    /\ pc = "line67"
    /\ objects = <<>>
    /\ out = <<>>
    /\ exit_code = <<>>

demo == <<pc, objects, out, exit_code>>

\* The build has not failed and the unit is between two declarations.
AtDeclaration == build = "ok" /\ query = <<>>

\* DEFINE_has_member(member_name);
DEFINE_has_member(member_name) ==
    /\ AtDeclaration
    /\ LET r == declare(declared, paste(member_name))
       IN  /\ declared' = r.scope
           /\ build' = r.diagnostic
    /\ UNCHANGED <<query, demo>>

\* ... temp_has_member(class_, member_name) ...
Query(class_, member_name) ==
    /\ AtDeclaration
    /\ IF name_lookup(declared, paste(member_name))
       THEN /\ query' = <<instantiate(class_, member_name)>>
            /\ build' = build
       ELSE /\ query' = <<>>
            /\ build' = "undeclared"
    /\ UNCHANGED <<declared, demo>>

\* The expression that named the instantiation is complete.
EndQuery ==
    /\ build = "ok"
    /\ query # <<>>
    /\ query' = <<>>
    /\ UNCHANGED <<declared, build, demo>>

(***************************************************************************)
(* The demonstration program.  cout << bool writes 1 or 0 (boolalpha is   *)
(* not set); each endl ends a line.                                       *)
(***************************************************************************)
\* cout << std::boolalpha is in effect.
format_boolalpha(b) == IF b THEN "true" ELSE "false"

format_bool(b) == IF b THEN "1" ELSE "0"

value_type(T) == T.value_type

\* test<T>::test()
test_constructor(T) ==
    << <<"has_member(T, heading) ",
         format_bool(temp_has_member(value_type(T), "heading"))>>,
       <<>> >>

\* main, lines 67 to 69, in order
Program ==
    [line67 |-> [object |-> "a", T |-> std_vector(CubeSphereObject), next |-> "line68"],
     line68 |-> [object |-> "b", T |-> std_vector(B), next |-> "line69"],
     line69 |-> [object |-> "c", T |-> std_vector(C), next |-> "line70"]]

Construct ==
    /\ pc \in DOMAIN Program
    /\ objects' = Append(objects, Program[pc].object)
    /\ out' = out \o test_constructor(Program[pc].T)
    /\ pc' = Program[pc].next
    /\ UNCHANGED <<declared, build, query, exit_code>>

\* return 0; the objects are destroyed in reverse order (~test() does nothing)
Return ==
    /\ pc = "line70"
    /\ objects' = <<>>
    /\ exit_code' = <<0>>
    /\ pc' = "exited"
    /\ UNCHANGED <<declared, build, query, out>>

\* A declaration of the unit: any registration, or any query, in any order.
Registration ==
    /\ AtDeclaration
    /\ \E member_name \in Names : DEFINE_has_member(member_name)

Use ==
    /\ AtDeclaration
    /\ \E class_ \in Types, member_name \in Names : Query(class_, member_name)

Next ==
    \/ Registration
    \/ Use
    \/ EndQuery
    \/ Construct
    \/ Return

Spec == Init /\ [][Next]_vars

(***************************************************************************)
(* What the claims speak of.                                               *)
(***************************************************************************)
Queried == query # <<>>

Q == query[1]

first_candidate == "test(decltype(&U::member_name))"

catch_all == "test(...)"

\* DEFINE_has_member(m) has been used in the unit.
registered(m) == \E i \in DOMAIN declared : declared[i] = paste(m)

\* T itself declares a member named m.
declares(T, m) == \E d \in T.members : d.name = m

\* T, or one of its base classes, declares a member named m.
RECURSIVE has_member_named(_, _)
has_member_named(T, m) ==
    \/ declares(T, m)
    \/ \E b \in T.bases : has_member_named(b.cls, m)

\* Some declaration of m in T or its bases is public along a public path.
RECURSIVE publicly_named(_, _)
publicly_named(T, m) ==
    \/ \E d \in T.members : d.name = m /\ d.access = "public"
    \/ \E b \in T.bases : b.access = "public" /\ publicly_named(b.cls, m)

\* The reasons for which &T::m cannot be formed: T is not a class; m is
\* absent; m names a nested type, an overloaded member function set or a
\* member of reference type; m is found in more than one base class; m is
\* not accessible.
invalid_address(T, m) ==
    \/ T.tag # "class"
    \/ ~has_member_named(T, m)
    \/ ~publicly_named(T, m)
    \/ \E d \in T.members :
          /\ d.name = m
          /\ \/ d.kind = "nested_type"
             \/ d.kind \in {"function", "static_function"} /\ d.overloads > 1
             \/ d.kind = "data" /\ d.mtype = "double&"
    \/ /\ ~declares(T, m)
       /\ Cardinality({ b \in T.bases : has_member_named(b.cls, m) }) > 1

\* C1: for every type T that declares a public member named M, of any kind
\* (non-static data member, member function, static member, nested type),
\* temp_has_member(T, M) after DEFINE_has_member(M) is true.
C1_PublicMemberOfAnyKindIsTrue ==
    Queried =>
        ((\E d \in Q.class_.members : d.name = Q.member_name /\ d.access = "public")
            => Q.value = TRUE)

\* C2, as stated: for every type T that does not declare a member named M,
\* temp_has_member(T, M) is false and the build does not fail.
C2_NotDeclaredIsFalse ==
    (Queried /\ ~declares(Q.class_, Q.member_name))
        => (Q.value = FALSE /\ build = "ok")

\* C2, amended: for every type T that has no member named M, neither
\* declared in T nor inherited from a base class, temp_has_member(T, M) is
\* false and the build does not fail.
C2_NoMemberDeclaredOrInheritedIsFalse ==
    (Queried /\ ~has_member_named(Q.class_, Q.member_name))
        => (Q.value = FALSE /\ build = "ok")

C2_Witness ==
    /\ Queried
    /\ Q.class_ = C
    /\ Q.member_name = "heading"
    /\ Q.value = FALSE

\* C3: for every type T that declares a member named N but no member named
\* M, N different from M, with both names registered, temp_has_member(T, M)
\* is false and temp_has_member(T, N) is true.
C3_NameExact ==
    (Queried /\ \A n \in Names : registered(n)) =>
        \A M, N \in Names :
            (M # N /\ declares(Q.class_, N) /\ ~declares(Q.class_, M))
                => /\ temp_has_member(Q.class_, M) = FALSE
                   /\ temp_has_member(Q.class_, N) = TRUE

\* C4: for every type T in which M exists only as a private or otherwise
\* inaccessible member, temp_has_member(T, M) is false: neither true nor a
\* build failure.
C4_InaccessibleMemberIsFalse ==
    (/\ Queried
     /\ has_member_named(Q.class_, Q.member_name)
     /\ ~publicly_named(Q.class_, Q.member_name))
        => (Q.value = FALSE /\ build = "ok")

C4_Witness ==
    /\ Queried
    /\ \E d \in Q.class_.members :
          d.name = Q.member_name /\ d.kind = "data" /\ d.mtype = "double"
          /\ d.access = "private"
    /\ Q.value = FALSE
    /\ build = "ok"

\* C5: the result depends only on the member's name, not on the member's
\* type: for any two types that each declare a public member named M with
\* different member types, temp_has_member is true for both.
C5_MemberTypeIsIrrelevant ==
    Queried =>
        \A d \in Q.class_.members :
            (d.name = Q.member_name /\ d.kind = "data" /\ d.access = "public"
             /\ d.mtype \in MemberTypes)
                => Q.value = TRUE

\* C6: registering the same member name twice in the same scope fails the
\* build: the second registration does not override or merge with the
\* first, and a unit that failed so produces no query result.
C6_DuplicateRegistrationFailsBuild ==
    /\ [][\A m \in Names :
            (DEFINE_has_member(m) /\ registered(m))
                => (build' = "redefinition" /\ declared' = declared /\ query' = <<>>)]_vars
    /\ [][build = "redefinition" => (build' = "redefinition" /\ query' = <<>>)]_vars
    /\ [](build = "redefinition" => query = <<>>)

C6_Witness == build = "redefinition" /\ registered("heading") /\ query = <<>>

\* C7: a query temp_has_member(T, M) before, or without, DEFINE_has_member(M)
\* for that exact name M fails the build and never yields a boolean; the
\* registration of a different name does not make the query valid.
\* (A Query step that yields a value leaves its class in query', so only
\* that class can have been the one queried.)
C7_QueryNeedsRegistration ==
    /\ [][\A m \in Names :
            (AtDeclaration /\ ~registered(m)
             /\ ~(build' = "undeclared" /\ query' = <<>>))
                => LET queried == IF query' = <<>> THEN Types ELSE {query'[1].class_}
                   IN  ~\E T \in queried : Query(T, m)]_vars
    /\ [](Queried => registered(Q.member_name))
    /\ [](build = "undeclared" => query = <<>>)

C7_Witness ==
    /\ build = "undeclared"
    /\ query = <<>>
    /\ declared = <<paste("headings")>>

\* C8: main constructs the test objects for vector<CubeSphereObject>,
\* vector<B>, vector<C> in that order; each construction prints the label
\* and the probe's result for the container's value_type, then a blank
\* line; the results are 1, 1, 0; the program exits with code 0.
Label == "has_member(T, heading) "

Expected ==
    << <<Label, "1">>, <<>>, <<Label, "1">>, <<>>, <<Label, "0">>, <<>> >>

C8_DemoOutput ==
    /\ pc \in {"line67", "line68", "line69", "line70", "exited"}
    /\ pc = "line67" => (objects = <<>> /\ out = <<>>)
    /\ pc = "line68" => (objects = <<"a">> /\ out = SubSeq(Expected, 1, 2))
    /\ pc = "line69" => (objects = <<"a", "b">> /\ out = SubSeq(Expected, 1, 4))
    /\ pc = "line70" => (objects = <<"a", "b", "c">> /\ out = Expected)
    /\ pc = "exited" => (out = Expected /\ exit_code = <<0>>)
    /\ pc # "exited" => exit_code = <<>>

C8_Witness == pc = "exited" /\ out = Expected /\ exit_code = <<0>>

\* C9: the candidate test(decltype(&U::member_name)) is selected whenever
\* it is viable, the catch-all test(...) only when it is not; value is true
\* exactly when the first candidate was selected, the two result types
\* being distinguished by size.
C9_OverloadPreference ==
    Queried =>
        /\ catch_all \in Q.viable
        /\ Q.selected = first_candidate <=> first_candidate \in Q.viable
        /\ Q.selected = catch_all <=> first_candidate \notin Q.viable
        /\ Q.value <=> Q.selected = first_candidate
        /\ sizeof(yes_type) # sizeof(no_type)

C9_Witness ==
    /\ Queried
    /\ Q.viable = {first_candidate, catch_all}
    /\ Q.selected = first_candidate
    /\ Q.value = TRUE

\* C10: a query never fails the build because of the queried type's
\* members: whenever &T::M cannot be formed (M absent, ambiguous through
\* several base classes, an overloaded member function set, a nested type,
\* T not a class), the first candidate is discarded and the result is false.
C10_InvalidAddressIsFalse ==
    (Queried /\ invalid_address(Q.class_, Q.member_name)) =>
        /\ first_candidate \notin Q.viable
        /\ Q.selected = catch_all
        /\ Q.value = FALSE
        /\ build = "ok"

C10_Witness ==
    /\ Queried
    /\ ~declares(Q.class_, Q.member_name)
    /\ Cardinality({ b \in Q.class_.bases : has_member_named(b.cls, Q.member_name) }) > 1
    /\ Q.value = FALSE
    /\ build = "ok"

====
